---- MODULE Spec2Model ----
(***************************************************************************)
(* Model of src/main.py: the document-to-text extraction                   *)
(* (extract_text_from_files) and the two Streamlit button handlers that    *)
(* call it ("data check" and "generate estimate").                         *)
(*                                                                         *)
(* Text is modelled as a rope: a sequence of segments, each a run of n     *)
(* characters of one kind.  len(), strip(), slicing and concatenation act  *)
(* on the rope as Python acts on the string.                               *)
(*                                                                         *)
(* The environment is fixed by Init: whether the API key is set, whether   *)
(* the OCR libraries import, the entries of the data folder and what each  *)
(* reader does with them, and the platform.  glob.glob matches through     *)
(* fnmatch, which applies os.path.normcase: on Windows (the platform line  *)
(* 18 configures Tesseract for) "*.pdf" also matches "R.PDF", while        *)
(* str.endswith stays case-sensitive.  What the OCR calls and the chat     *)
(* completion return or raise is chosen when they are called.              *)
(***************************************************************************)
EXTENDS Integers, Sequences, FiniteSets, TLC

\* ------------------------------------------------------------------ bounds
\* Largest number of entries of the data directory.
MaxFiles == 2

\* ------------------------------------------------------- program constants
\* src/main.py:64  len(raw_text.strip()) < 50
OCR_THRESHOLD == 50
\* src/main.py:199 len(context_data) > 100000
CORPUS_BUDGET == 100000

\* ----------------------------------------------------------------- strings
\* kinds: "ws" whitespace run, "tx" visible text run, "hd" a file header line,
\* "lit" a literal of the program, "cut" what a slice leaves of a header or
\* literal.  v names the content, f the format tag of a header.
Seg(k, n, v, f) == [k |-> k, n |-> n, v |-> v, f |-> f]
Ws(n) == <<Seg("ws", n, "", "")>>
Tx(n, v) == <<Seg("tx", n, v, "")>>
Lit(n, v) == <<Seg("lit", n, v, "")>>
NL == Ws(1)
Empty == <<>>

RECURSIVE StrLen(_)
StrLen(s) == IF s = <<>> THEN 0 ELSE Head(s).n + StrLen(Tail(s))

RECURSIVE LStrip(_)
LStrip(s) == IF s = <<>> THEN <<>>
             ELSE IF Head(s).k = "ws" THEN LStrip(Tail(s)) ELSE s

RECURSIVE RStrip(_)
RStrip(s) == IF s = <<>> THEN <<>>
             ELSE IF s[Len(s)].k = "ws" THEN RStrip(SubSeq(s, 1, Len(s) - 1)) ELSE s

\* str.strip()
Strip(s) == RStrip(LStrip(s))

\* one segment cut to its first n characters (0 < n < seg.n)
CutSeg(seg, n) ==
    IF seg.k \in {"ws", "tx"} THEN [seg EXCEPT !.n = n]
    ELSE Seg("cut", n, seg.v, seg.f)

\* s[:n]
RECURSIVE Take(_, _)
Take(s, n) ==
    IF s = <<>> \/ n <= 0 THEN <<>>
    ELSE IF Head(s).n <= n THEN <<Head(s)>> \o Take(Tail(s), n - Head(s).n)
    ELSE <<CutSeg(Head(s), n)>>

\* whether s ends with t
EndsWith(s, t) ==
    /\ Len(t) <= Len(s)
    /\ SubSeq(s, Len(s) - Len(t) + 1, Len(s)) = t

\* ------------------------------------------------------------------ errors
\* An exception's message, str(e), as its words.
NoErr == <<>>
E_EOF == <<"EOF", "marker", "not", "found">>
E_PACKAGE == <<"Package", "not", "found">>
E_TABULATE == <<"Missing", "optional", "dependency", "tabulate">>
E_TESS == <<"tesseract", "is", "not", "installed">>
E_TESS_EXE == <<"tesseract.exe", "is", "not", "installed">>
E_NOTFOUND == <<"Image", "file", "not", "Found">>
E_POPPLER == <<"Unable", "to", "get", "page", "count.", "Is", "Poppler", "installed">>
E_OTHER == <<"Image", "size", "exceeds", "limit">>
\* what convert_from_path and image_to_string may raise
ConvertErrors == {E_POPPLER, E_OTHER}
RecognizeErrors == {E_TESS, E_TESS_EXE, E_NOTFOUND}
E_API == <<"Connection", "error.">>

\* str.lower() on one word
LowerWord(w) ==
    CASE w = "Found" -> "found"
      [] w = "Poppler" -> "poppler"
      [] w = "Image" -> "image"
      [] w = "Unable" -> "unable"
      [] w = "Is" -> "is"
      [] w = "EOF" -> "eof"
      [] w = "Package" -> "package"
      [] w = "Missing" -> "missing"
      [] w = "Connection" -> "connection"
      [] OTHER -> w
Lower(msg) == [i \in 1..Len(msg) |-> LowerWord(msg[i])]

\* phrase in msg
Contains(msg, phrase) ==
    \E i \in 1..(Len(msg) - Len(phrase) + 1) :
        SubSeq(msg, i, i + Len(phrase) - 1) = phrase


\* ------------------------------------------------------- directory entries
\* One entry of the data directory: its name (with the name's length), the
\* suffix of the name as written, the error the format's reader raises on
\* opening it (NoErr: none), and its units (the pages of a PDF, the paragraphs
\* of a Word file, the sheets of a workbook) in document order.  A unit holds
\* the text the reader yields for it, or the error reading it raises; sn/snl
\* are a sheet's name and the name's length.
Unit(t, err) == [t |-> t, err |-> err, sn |-> "", snl |-> 0]
Sheet(sn, snl, t, err) == [t |-> t, err |-> err, sn |-> sn, snl |-> snl]
Entry(name, nlen, ext, openErr, units) ==
    [name |-> name, nlen |-> nlen, ext |-> ext, openErr |-> openErr, units |-> units]

\* a text page followed by a scanned page
F_MIX == Entry("mix.pdf", 7, ".pdf", NoErr,
               <<Unit(Tx(60, "mix-p1"), NoErr), Unit(Empty, NoErr)>>)
\* a scanned page and a page of 49 visible characters between whitespace
F_SCAN == Entry("scan.pdf", 8, ".pdf", NoErr,
                <<Unit(Empty, NoErr), Unit(Ws(2) \o Tx(49, "scan-p2") \o Ws(1), NoErr)>>)
\* two pages of 24 and 25 characters: 24 + newline + 25 = 50 after strip()
F_FIFTY == Entry("fifty.pdf", 9, ".pdf", NoErr,
                 <<Unit(Tx(24, "fifty-p1"), NoErr), Unit(Tx(25, "fifty-p2"), NoErr)>>)
\* the second page cannot be extracted
F_BADPDF == Entry("bad.pdf", 7, ".pdf", NoErr,
                  <<Unit(Tx(80, "bad-p1"), NoErr), Unit(Empty, E_EOF)>>)
\* alone it makes a corpus of exactly CORPUS_BUDGET characters
F_BIG == Entry("big.docx", 8, ".docx", NoErr,
               <<Unit(Tx(99900, "big-1"), NoErr), Unit(Tx(65, "big-2"), NoErr)>>)
F_BADDOCX == Entry("bad.docx", 8, ".docx", E_PACKAGE, <<>>)
F_XLSX == Entry("ok.xlsx", 7, ".xlsx", NoErr,
                <<Sheet("Sheet1", 6, Tx(40, "ok-s1"), NoErr)>>)
\* the second sheet cannot be rendered
F_BADXLSX == Entry("bad.xlsx", 8, ".xlsx", NoErr,
                   <<Sheet("A", 1, Tx(30, "bad-s1"), NoErr), Sheet("B", 1, Empty, E_TABULATE)>>)
\* a readable PDF whose suffix is written in capitals
F_UPPER == Entry("R.PDF", 5, ".PDF", NoErr, <<Unit(Tx(70, "upper-p1"), NoErr)>>)
F_TXT == Entry("notes.txt", 9, ".txt", NoErr, <<>>)

Catalog == {F_MIX, F_SCAN, F_FIFTY, F_BADPDF, F_BIG, F_BADDOCX, F_XLSX, F_BADXLSX,
            F_UPPER, F_TXT}

\* listings of a directory: up to MaxFiles entries with distinct names
Listings ==
    { l \in UNION { [1..n -> Catalog] : n \in 0..MaxFiles } :
        \A i, j \in 1..Len(l) : i /= j => l[i].name /= l[j].name }

\* os.path.normcase on a suffix: lower-cases on Windows, identity elsewhere
NormCase(ext, win) ==
    IF ~win THEN ext
    ELSE CASE ext = ".PDF" -> ".pdf" [] OTHER -> ext

\* fnmatch of "*<suffix>" against an entry, as glob.glob applies it
FnMatch(e, suffix, win) == NormCase(e.ext, win) = NormCase(suffix, win)

\* glob.glob(os.path.join(folder_path, "*" + suffix)): the matching entries, in
\* listing order, each under the name it has on disk
Glob(listing, suffix, win) == SelectSeq(listing, LAMBDA e : FnMatch(e, suffix, win))

\* file_path.endswith(suffix): case-sensitive on every platform
PathEndsWith(e, suffix) == e.ext = suffix

\* the branch of the if/elif chain of lines 52, 108, 117 the file takes
Format(e) ==
    IF PathEndsWith(e, ".pdf") THEN "PDF"
    ELSE IF PathEndsWith(e, ".docx") THEN "Word"
    ELSE IF PathEndsWith(e, ".xlsx") THEN "Excel"
    ELSE "none"

\* ------------------------------------------------------------- text blocks
\* "--- ファイル名: " is 11 characters; " (PDF) ---" 10, " (Word) ---" 11,
\* " (Excel) ---" 12
HeaderTail(fmt) == CASE fmt = "PDF" -> 10 [] fmt = "Word" -> 11 [] OTHER -> 12

\* f"\n\n--- ファイル名: {file_name} (<fmt>) ---\n"
Header(e, fmt) ==
    Ws(2) \o <<Seg("hd", 11 + e.nlen + HeaderTail(fmt), e.name, fmt)>> \o NL

\* f"Sheet: {sheet_name}\n"
SheetLine(u) == Lit(7 + u.snl, "Sheet: ") \o NL

\* "(OCR処理中にエラーが発生しました)\n"
L_OCR_ERROR == Lit(19, "(OCR error)") \o NL
\* "(OCRを実行しましたが文字を認識できませんでした)\n"
L_OCR_BLANK == Lit(26, "(OCR recognised nothing)") \o NL
\* "(OCRライブラリが不足しているため画像文字は読めません)\n"
L_OCR_MISSING == Lit(29, "(OCR library missing)") \o NL
\* "\n...(以下省略)..."
TRUNCATION_MARKER == NL \o Lit(12, "...(omitted below)...")
\* "dataフォルダが見つかりません。"
T_NO_FOLDER == Lit(17, "data folder not found")
\* "ファイルなし"
T_NO_FILES == Lit(6, "no files")

\* ------------------------------------------------------------- diagnostics
\* One entry of debug_logs: the emoji it starts with ("err" for the cross,
\* "warn", "info", "ok" for the check mark, "none"), the message, and the file
\* name, error text and page numbers the f-string embeds.
Log(mark, msg, file, err, i, n) ==
    [mark |-> mark, msg |-> msg, file |-> file, err |-> err, i |-> i, n |-> n]
NoLog == Log("none", "", "", NoErr, 0, 0)

LogOcrTry(e) == Log("info", "text is scarce, trying OCR", e.name, NoErr, 0, 0)
LogOcrPage(i, n) == Log("none", "OCR page", "", NoErr, i, n)
LogOcrOk(e) == Log("ok", "OCR succeeded", e.name, NoErr, 0, 0)
LogOcrBlank(e) == Log("warn", "OCR recognised nothing", e.name, NoErr, 0, 0)
LogOcrMissing(e) == Log("warn", "OCR library not installed, skipped", e.name, NoErr, 0, 0)
LogTesseract(err) == Log("err", "OCR error: Tesseract not found", "", err, 0, 0)
LogPoppler(err) == Log("err", "OCR error: Poppler not found", "", err, 0, 0)
LogOcrOther(e, err) == Log("err", "OCR processing error", e.name, err, 0, 0)
LogReadError(e, err) == Log("err", "read error", e.name, err, 0, 0)
LogNoFolder == Log("none", "no folder", "", NoErr, 0, 0)
LogNoFiles == Log("none", "no files found", "", NoErr, 0, 0)


\* what the page shows: one widget call.  w is the Streamlit function, what
\* tells the payload apart: a diagnostic entry, a number, a text or a fixed message.
Widget(w, what, log, num, str) ==
    [w |-> w, what |-> what, log |-> log, num |-> num, str |-> str]
Message(w, msg) == Widget(w, msg, NoLog, 0, Empty)

\* the if/elif chain of lines 178-181
Severity(log) ==
    IF log.mark = "err" THEN "error"
    ELSE IF log.mark = "warn" THEN "warning"
    ELSE IF log.mark = "info" THEN "info"
    ELSE "success"
ShowLog(log) == Widget(Severity(log), "log", log, 0, Empty)

\* one call that leaves the process: the operation, the file (or pattern) it
\* is about and the error it raised (NoErr: it returned)
Call(op, file, err) == [op |-> op, file |-> file, err |-> err]

\* ------------------------------------------------------------------- state
VARIABLES
    API_KEY,          \* whether OPENAI_API_KEY is set (line 25)
    OCR_AVAILABLE,    \* whether the OCR libraries were imported (lines 10-20)
    windows,          \* whether os.path is ntpath
    folderExists,     \* whether DATA_FOLDER exists
    listing,          \* the entries of DATA_FOLDER, in os.listdir order
    pc,               \* the position of the script run
    button,           \* the button whose click started the run
    files,            \* extract_text_from_files: the discovered files
    idx,              \* the position of the file loop (1-based)
    unit,             \* the position in the file's pages / paragraphs / sheets
    text,             \* the block of the file being processed
    raw_text,         \* the native text of the PDF being processed
    images,           \* len(images) of the PDF being recognised
    ocr_result_text,
    combined_text,
    file_count,
    debug_logs,
    context_data,     \* the handler's locals, from the function's return
    count,
    logs,
    shown,            \* the widgets the run has drawn, in order
    io                \* the calls that left the process in this run, in order

vars == <<API_KEY, OCR_AVAILABLE, windows, folderExists, listing, pc, button,
          files, idx, unit, text, raw_text, images, ocr_result_text,
          combined_text, file_count, debug_logs, context_data, count, logs,
          shown, io>>

env == <<API_KEY, OCR_AVAILABLE, windows, folderExists, listing>>
locals == <<files, idx, unit, text, raw_text, images, ocr_result_text,
            combined_text, file_count, debug_logs>>
result == <<context_data, count, logs>>

Init ==
    /\ API_KEY \in BOOLEAN
    /\ OCR_AVAILABLE \in BOOLEAN
    /\ windows \in BOOLEAN
    /\ folderExists \in BOOLEAN
    /\ listing \in Listings
    /\ (~folderExists => listing = <<>>)
    /\ pc = "idle"
    /\ button = "none"
    /\ files = <<>>
    /\ idx = 0
    /\ unit = 0
    /\ text = Empty
    /\ raw_text = Empty
    /\ images = 0
    /\ ocr_result_text = Empty
    /\ combined_text = Empty
    /\ file_count = 0
    /\ debug_logs = <<>>
    /\ context_data = Empty
    /\ count = 0
    /\ logs = <<>>
    /\ shown = <<>>
    /\ io = <<>>

\* ------------------------------------------------------------ the page run
\* lines 138-158: the sidebar, drawn by every run of the script
Sidebar ==
    <<IF API_KEY THEN Message("success", "API key: OK")
                 ELSE Message("error", "API key: not set")>>
    \o <<IF folderExists
         THEN Widget("success", "data folder: files", NoLog, Len(listing), Empty)
         ELSE Message("error", "data folder not found")>>
    \o <<IF OCR_AVAILABLE THEN Message("success", "OCR library: installed")
                          ELSE Message("warning", "OCR library: not installed")>>
SidebarCalls ==
    <<Call("exists", "data", NoErr)>>
    \o (IF folderExists THEN <<Call("glob", "*.*", NoErr)>> ELSE <<>>)

\* A click on one of the two buttons: Streamlit runs the script from the top;
\* the run draws the sidebar and enters the clicked button's branch.
ScriptRun(b) ==
    /\ pc \in {"idle", "done"}
    /\ button' = b
    /\ pc' = b
    /\ shown' = Sidebar
    /\ io' = SidebarCalls
    /\ files' = <<>> /\ idx' = 0 /\ unit' = 0 /\ text' = Empty /\ raw_text' = Empty
    /\ images' = 0 /\ ocr_result_text' = Empty /\ combined_text' = Empty
    /\ file_count' = 0 /\ debug_logs' = <<>>
    /\ context_data' = Empty /\ count' = 0 /\ logs' = <<>>
    /\ UNCHANGED env

\* ------------------------------------------------- extract_text_from_files
\* where the function returns to
AfterReturn == IF button = "check" THEN "check_show" ELSE "gen_truncate"

\* line 43
NoFolderResult == [text |-> T_NO_FOLDER, count |-> 0, logs |-> <<LogNoFolder>>]
\* line 46 with an empty diagnostic list
NoFilesResultSilent == [text |-> T_NO_FILES, count |-> 0, logs |-> <<>>]

\* line 46
NoFilesResult == [text |-> T_NO_FILES, count |-> 0, logs |-> <<LogNoFiles>>]

\* lines 36-41: the three patterns, in this order
Discovered ==
    Glob(listing, ".pdf", windows) \o Glob(listing, ".docx", windows)
        \o Glob(listing, ".xlsx", windows)

\* folder_path and os.path.exists(folder_path); folder_path is DATA_FOLDER
FolderOk(folder_path) == folder_path /= "" /\ folderExists
DATA_FOLDER == "data"

Return(r) ==
    /\ context_data' = r.text
    /\ count' = r.count
    /\ logs' = r.logs
    /\ pc' = AfterReturn

\* lines 32-46, the folder is missing
ExtractNoFolder ==
    /\ pc = "extract"
    /\ ~FolderOk(DATA_FOLDER)
    /\ io' = Append(io, Call("exists", "data", NoErr))
    /\ Return(NoFolderResult)
    /\ UNCHANGED <<env, button, locals, shown>>

\* lines 32-46, no file matches
ExtractNoFiles ==
    /\ pc = "extract"
    /\ FolderOk(DATA_FOLDER)
    /\ Discovered = <<>>
    /\ io' = io \o <<Call("exists", "data", NoErr), Call("glob", "*.pdf", NoErr),
                     Call("glob", "*.docx", NoErr), Call("glob", "*.xlsx", NoErr)>>
    /\ Return(NoFilesResult)
    /\ UNCHANGED <<env, button, locals, shown>>

\* lines 32-48, the loop is entered
ExtractBegin ==
    /\ pc = "extract"
    /\ FolderOk(DATA_FOLDER)
    /\ Discovered /= <<>>
    /\ io' = io \o <<Call("exists", "data", NoErr), Call("glob", "*.pdf", NoErr),
                     Call("glob", "*.docx", NoErr), Call("glob", "*.xlsx", NoErr)>>
    /\ files' = Discovered
    /\ idx' = 1
    /\ pc' = "file"
    /\ combined_text' = Empty /\ file_count' = 0 /\ debug_logs' = <<>>
    /\ UNCHANGED <<env, button, unit, text, raw_text, images, ocr_result_text,
                   result, shown>>


\* the file the loop is at
Cur == files[idx]

\* lines 127-128 if the loops wrote into combined_text as they went: what was
\* read of the file before the error stays in the corpus
ReadFailureKeepsPartial(err) ==
    /\ debug_logs' = Append(debug_logs, LogReadError(Cur, err))
    /\ idx' = idx + 1
    /\ pc' = "file"
    /\ combined_text' = combined_text \o text
    /\ UNCHANGED file_count

\* lines 127-128: the except branch of the file's try
ReadFailure(err) ==
    /\ debug_logs' = Append(debug_logs, LogReadError(Cur, err))
    /\ idx' = idx + 1
    /\ pc' = "file"
    /\ UNCHANGED <<combined_text, file_count>>

\* lines 53-54, 109-110, 118-119: the format's reader opens the file
FileOpenOk ==
    /\ pc = "file" /\ idx <= Len(files)
    /\ Format(Cur) /= "none"
    /\ Cur.openErr = NoErr
    /\ io' = Append(io, Call("open", Cur.name, NoErr))
    /\ text' = Header(Cur, Format(Cur))
    /\ raw_text' = IF Format(Cur) = "PDF" THEN Empty ELSE raw_text
    /\ unit' = 1
    /\ pc' = "unit"
    /\ UNCHANGED <<env, button, files, idx, images, ocr_result_text, combined_text,
                   file_count, debug_logs, result, shown>>

\* lines 53, 109, 118: the reader raises
FileOpenRaise ==
    /\ pc = "file" /\ idx <= Len(files)
    /\ Format(Cur) /= "none"
    /\ Cur.openErr /= NoErr
    /\ io' = Append(io, Call("open", Cur.name, Cur.openErr))
    /\ ReadFailure(Cur.openErr)
    /\ UNCHANGED <<env, button, files, unit, text, raw_text, images, ocr_result_text,
                   result, shown>>

\* lines 52, 108, 117: no branch of the chain takes the file
FileSkip ==
    /\ pc = "file" /\ idx <= Len(files)
    /\ Format(Cur) = "none"
    /\ idx' = idx + 1
    /\ UNCHANGED <<env, button, pc, files, unit, text, raw_text, images,
                   ocr_result_text, combined_text, file_count, debug_logs, result,
                   shown, io>>

\* lines 60-61: a page's text joins raw_text when it is not empty
AddPage(raw, extracted) == IF extracted /= Empty THEN raw \o extracted \o NL ELSE raw
\* line 112
AddParagraph(t, para) == t \o para \o NL
\* lines 121-123 (df is rendered after fillna(""))
AddSheet(t, u) == t \o SheetLine(u) \o u.t \o NL

\* lines 58-61, 111-112, 120-123: one page, paragraph or sheet is read
UnitOk ==
    /\ pc = "unit" /\ unit <= Len(Cur.units)
    /\ Cur.units[unit].err = NoErr
    /\ raw_text' = IF Format(Cur) = "PDF" THEN AddPage(raw_text, Cur.units[unit].t)
                   ELSE raw_text
    /\ text' = IF Format(Cur) = "Word" THEN AddParagraph(text, Cur.units[unit].t)
               ELSE IF Format(Cur) = "Excel" THEN AddSheet(text, Cur.units[unit])
               ELSE text
    /\ unit' = unit + 1
    /\ UNCHANGED <<env, button, pc, files, idx, images, ocr_result_text,
                   combined_text, file_count, debug_logs, result, shown, io>>

\* lines 59, 112, 123: reading it raises
UnitRaise ==
    /\ pc = "unit" /\ unit <= Len(Cur.units)
    /\ Cur.units[unit].err /= NoErr
    /\ ReadFailure(Cur.units[unit].err)
    /\ UNCHANGED <<env, button, files, unit, text, raw_text, images, ocr_result_text,
                   result, shown, io>>

\* lines 111-113, 120-124: the paragraphs or sheets are done
UnitsEnd ==
    /\ pc = "unit" /\ unit > Len(Cur.units)
    /\ Format(Cur) \in {"Word", "Excel"}
    /\ pc' = "commit"
    /\ UNCHANGED <<env, button, files, idx, unit, text, raw_text, images,
                   ocr_result_text, combined_text, file_count, debug_logs, result,
                   shown, io>>

\* line 64 with <= for <: a PDF of exactly 50 characters goes to OCR
NeedsOcrInclusive(raw) == StrLen(Strip(raw)) <= OCR_THRESHOLD

\* line 64
NeedsOcr(raw) == StrLen(Strip(raw)) < OCR_THRESHOLD

\* lines 64, 100-102: enough native text
RouteNative ==
    /\ pc = "unit" /\ unit > Len(Cur.units)
    /\ Format(Cur) = "PDF"
    /\ ~NeedsOcr(raw_text)
    /\ text' = text \o raw_text
    /\ pc' = "commit"
    /\ UNCHANGED <<env, button, files, idx, unit, raw_text, images, ocr_result_text,
                   combined_text, file_count, debug_logs, result, shown, io>>

\* lines 64-67: the PDF goes to OCR
RouteOcr ==
    /\ pc = "unit" /\ unit > Len(Cur.units)
    /\ Format(Cur) = "PDF"
    /\ NeedsOcr(raw_text)
    /\ OCR_AVAILABLE
    /\ debug_logs' = Append(debug_logs, LogOcrTry(Cur))
    /\ pc' = "convert"
    /\ UNCHANGED <<env, button, files, idx, unit, text, raw_text, images,
                   ocr_result_text, combined_text, file_count, result, shown, io>>

\* line 98
MissingBlock(raw) == L_OCR_MISSING \o raw

\* lines 64-65, 97-99: it would go to OCR, and the libraries are missing
RouteOcrMissing ==
    /\ pc = "unit" /\ unit > Len(Cur.units)
    /\ Format(Cur) = "PDF"
    /\ NeedsOcr(raw_text)
    /\ ~OCR_AVAILABLE
    /\ text' = text \o MissingBlock(raw_text)
    /\ debug_logs' = debug_logs \o <<LogOcrTry(Cur), LogOcrMissing(Cur)>>
    /\ pc' = "commit"
    /\ UNCHANGED <<env, button, files, idx, unit, raw_text, images, ocr_result_text,
                   combined_text, file_count, result, shown, io>>

\* lines 90-96: the message decides the entry
ClassifyOcrError(e, err) ==
    IF Contains(Lower(err), <<"tesseract", "is", "not", "installed">>)
       \/ Contains(Lower(err), <<"found">>)
    THEN LogTesseract(err)
    ELSE IF Contains(Lower(err), <<"poppler">>) THEN LogPoppler(err)
    ELSE LogOcrOther(e, err)

\* line 89 without "+ raw_text": the native text is dropped
ErrorBlockNoNative(raw) == L_OCR_ERROR

\* line 89
ErrorBlock(raw) == L_OCR_ERROR \o raw

\* lines 88-96: the except branch of the OCR try, after `entries` were logged
OcrFailure(entries, err) ==
    /\ text' = text \o ErrorBlock(raw_text)
    /\ debug_logs' = (debug_logs \o entries) \o <<ClassifyOcrError(Cur, err)>>
    /\ pc' = "commit"

\* lines 71-72: the PDF is rasterised, one image per page
OcrConvertOk ==
    /\ pc = "convert"
    /\ io' = Append(io, Call("convert", Cur.name, NoErr))
    /\ images' = Len(Cur.units)
    /\ ocr_result_text' = Empty
    /\ unit' = 1
    /\ pc' = "recognize"
    /\ UNCHANGED <<env, button, files, idx, text, raw_text, combined_text,
                   file_count, debug_logs, result, shown>>

\* line 71: convert_from_path raises
OcrConvertRaise(err) ==
    /\ pc = "convert"
    /\ io' = Append(io, Call("convert", Cur.name, err))
    /\ OcrFailure(<<>>, err)
    /\ UNCHANGED <<env, button, files, idx, unit, raw_text, images, ocr_result_text,
                   combined_text, file_count, result, shown>>

\* what image_to_string may return for a page
RecognizedTexts == {Empty, Ws(1), Tx(30, "ocr")}

\* lines 75-79: one image is recognised (unit is i + 1)
OcrPageOk(t) ==
    /\ pc = "recognize" /\ unit <= images
    /\ io' = Append(io, Call("recognize", Cur.name, NoErr))
    /\ debug_logs' = Append(debug_logs, LogOcrPage(unit, images))
    /\ ocr_result_text' = ocr_result_text \o t \o NL
    /\ unit' = unit + 1
    /\ UNCHANGED <<env, button, pc, files, idx, text, raw_text, images,
                   combined_text, file_count, result, shown>>

\* line 78: image_to_string raises
OcrPageRaise(err) ==
    /\ pc = "recognize" /\ unit <= images
    /\ io' = Append(io, Call("recognize", Cur.name, err))
    /\ OcrFailure(<<LogOcrPage(unit, images)>>, err)
    /\ UNCHANGED <<env, button, files, idx, unit, raw_text, images, ocr_result_text,
                   combined_text, file_count, result, shown>>

\* lines 82-84: OCR read something
OcrSuccess ==
    /\ pc = "recognize" /\ unit > images
    /\ Strip(ocr_result_text) /= Empty
    /\ text' = text \o ocr_result_text
    /\ debug_logs' = Append(debug_logs, LogOcrOk(Cur))
    /\ pc' = "commit"
    /\ UNCHANGED <<env, button, files, idx, unit, raw_text, images, ocr_result_text,
                   combined_text, file_count, result, shown, io>>

\* lines 85-87: OCR read nothing
OcrBlank ==
    /\ pc = "recognize" /\ unit > images
    /\ Strip(ocr_result_text) = Empty
    /\ text' = text \o (L_OCR_BLANK \o raw_text)
    /\ debug_logs' = Append(debug_logs, LogOcrBlank(Cur))
    /\ pc' = "commit"
    /\ UNCHANGED <<env, button, files, idx, unit, raw_text, images, ocr_result_text,
                   combined_text, file_count, result, shown, io>>

\* lines 104, 113, 124
AddBlock(combined, block) == combined \o block

\* lines 104-105, 113-114, 124-125: the file's block joins the corpus
Commit ==
    /\ pc = "commit"
    /\ combined_text' = AddBlock(combined_text, text)
    /\ file_count' = file_count + 1
    /\ idx' = idx + 1
    /\ pc' = "file"
    /\ UNCHANGED <<env, button, files, unit, text, raw_text, images, ocr_result_text,
                   debug_logs, result, shown, io>>

\* line 130
LoopEnd ==
    /\ pc = "file" /\ idx > Len(files)
    /\ Return([text |-> combined_text, count |-> file_count, logs |-> debug_logs])
    /\ UNCHANGED <<env, button, locals, shown, io>>

\* ---------------------------------------------------------------- handlers
\* lines 171-173: the data-check button
CheckCall ==
    /\ pc = "check"
    /\ pc' = "extract"
    /\ UNCHANGED <<env, button, locals, result, shown, io>>

\* lines 175-181
ShowLogs(ls) ==
    IF ls /= <<>>
    THEN <<Message("write", "--- log ---")>> \o [i \in 1..Len(ls) |-> ShowLog(ls[i])]
    ELSE <<>>

\* lines 175-185
CheckShow ==
    /\ pc = "check_show"
    /\ shown' = (shown \o ShowLogs(logs))
                \o <<Widget("info", "files read", NoLog, count, Empty),
                     Widget("text", "text", NoLog, 0, context_data)>>
    /\ pc' = "done"
    /\ UNCHANGED <<env, button, locals, result, io>>

\* line 190 without the test of API_KEY
GenerateAllowedNoKey == folderExists

\* line 190; os.path.exists is evaluated only when API_KEY is set
GenerateAllowed == API_KEY /\ folderExists
GuardCalls == IF API_KEY THEN <<Call("exists", "data", NoErr)>> ELSE <<>>

\* lines 189-191: the estimate button, refused
GenerateRefuse ==
    /\ pc = "generate"
    /\ ~GenerateAllowed
    /\ io' = io \o GuardCalls
    /\ shown' = Append(shown, Message("error", "check the settings"))
    /\ pc' = "done"
    /\ UNCHANGED <<env, button, locals, result>>

\* lines 189-196: the estimate button, extraction is called
GenerateCall ==
    /\ pc = "generate"
    /\ GenerateAllowed
    /\ io' = io \o GuardCalls
    /\ pc' = "extract"
    /\ UNCHANGED <<env, button, locals, result, shown>>

\* lines 199-200
Truncate(c) ==
    IF StrLen(c) > CORPUS_BUDGET THEN Take(c, CORPUS_BUDGET) \o TRUNCATION_MARKER
    ELSE c

\* lines 199-218
GenTruncate ==
    /\ pc = "gen_truncate"
    /\ context_data' = Truncate(context_data)
    /\ pc' = "gen_call"
    /\ UNCHANGED <<env, button, locals, count, logs, shown, io>>

\* lines 221-229: the chat completion returns
SynthOk ==
    /\ pc = "gen_call"
    /\ io' = Append(io, Call("chat", "gpt-4o-mini", NoErr))
    /\ shown' = Append(shown, Message("markdown", "response"))
    /\ pc' = "done"
    /\ UNCHANGED <<env, button, locals, result>>

\* lines 221-231: the chat completion raises
SynthRaise ==
    /\ pc = "gen_call"
    /\ io' = Append(io, Call("chat", "gpt-4o-mini", E_API))
    /\ shown' = Append(shown, Widget("error", "API error", Log("none", "", "", E_API, 0, 0), 0, Empty))
    /\ pc' = "done"
    /\ UNCHANGED <<env, button, locals, result>>

Next ==
    \/ \E b \in {"check", "generate"} : ScriptRun(b)
    \/ ExtractNoFolder
    \/ ExtractNoFiles
    \/ ExtractBegin
    \/ FileOpenOk
    \/ FileOpenRaise
    \/ FileSkip
    \/ UnitOk
    \/ UnitRaise
    \/ UnitsEnd
    \/ RouteNative
    \/ RouteOcr
    \/ RouteOcrMissing
    \/ OcrConvertOk
    \/ \E err \in ConvertErrors : OcrConvertRaise(err)
    \/ \E t \in RecognizedTexts : OcrPageOk(t)
    \/ \E err \in RecognizeErrors : OcrPageRaise(err)
    \/ OcrSuccess
    \/ OcrBlank
    \/ Commit
    \/ LoopEnd
    \/ CheckCall
    \/ CheckShow
    \/ GenerateRefuse
    \/ GenerateCall
    \/ GenTruncate
    \/ SynthOk
    \/ SynthRaise

Spec == Init /\ [][Next]_vars


\* ------------------------------------------------- what the properties read
\* the positions of the script run inside the file loop
LoopPcs == {"file", "unit", "convert", "recognize", "commit"}
\* the positions right after extract_text_from_files has returned
Returned == pc \in {"check_show", "gen_truncate"}

\* the files the loop is done with
DoneFiles == SubSeq(files, 1, idx - 1)

\* the error reading the file raises, NoErr when none: the reader's on opening
\* it, or the first one a page, paragraph or sheet raises
RECURSIVE FirstUnitErr(_)
FirstUnitErr(us) ==
    IF us = <<>> THEN NoErr
    ELSE IF Head(us).err /= NoErr THEN Head(us).err ELSE FirstUnitErr(Tail(us))
ReadErr(e) ==
    IF e.ext \notin {".pdf", ".docx", ".xlsx"} THEN NoErr
    ELSE IF e.openErr /= NoErr THEN e.openErr ELSE FirstUnitErr(e.units)
Fails(e) == ReadErr(e) /= NoErr

\* the text of a PDF's pages: each non-empty page followed by a newline
RECURSIVE PagesText(_)
PagesText(us) ==
    IF us = <<>> THEN Empty
    ELSE (IF Head(us).t = Empty THEN Empty ELSE Head(us).t \o Ws(1)) \o PagesText(Tail(us))

\* the names in the header lines of a text, in order
HeaderNames(s) ==
    LET hs == SelectSeq(s, LAMBDA g : g.k = "hd") IN [i \in 1..Len(hs) |-> hs[i].v]
Names(fs) == [i \in 1..Len(fs) |-> fs[i].name]
InSeq(x, q) == \E i \in 1..Len(q) : q[i] = x

\* what follows the header line of `name` in s, up to the next header line
BlockOf(s, name) ==
    LET p == CHOOSE i \in 1..Len(s) : s[i].k = "hd" /\ s[i].v = name
        later == {i \in (p + 1)..Len(s) : s[i].k = "hd"}
        q == IF later = {} THEN Len(s)
             ELSE (CHOOSE i \in later : \A j \in later : i <= j) - 2
    IN SubSeq(s, p + 2, q)

\* the entries of debug_logs about `name`
LogsAbout(name) == SelectSeq(debug_logs, LAMBDA l : l.file = name)


\* -------------------------------------------------------------- properties
\* the files among fs whose read raises nothing and that a branch takes
Supported(e) == e.ext \in {".pdf", ".docx", ".xlsx"}
ReadOk(fs) == SelectSeq(fs, LAMBDA e : Supported(e) /\ ~Fails(e))

\* C1: whatever files were discovered and whichever of them fail to read, every
\* file that does not fail is processed (its block is in the corpus) and
\* counted, every failing file leaves exactly one diagnostic entry, holding its
\* name and the error's text, and file_count is the number of files that did
\* not fail.
C1_ReadFailuresIsolated ==
    /\ \A i \in 1..Len(DoneFiles) :
          LET e == DoneFiles[i] IN
          /\ ~Fails(e) => InSeq(e.name, HeaderNames(combined_text))
          /\ Fails(e) =>
                /\ Len(LogsAbout(e.name)) = 1
                /\ LogsAbout(e.name)[1].err = ReadErr(e)
    /\ file_count = Cardinality({i \in 1..Len(DoneFiles) : ~Fails(DoneFiles[i])})

\* C1 on the files a branch of the chain takes (what holds of the code)
C1_OnSupportedFiles ==
    /\ \A i \in 1..Len(DoneFiles) :
          LET e == DoneFiles[i] IN
          /\ (Supported(e) /\ ~Fails(e)) => InSeq(e.name, HeaderNames(combined_text))
          /\ Fails(e) =>
                /\ Len(LogsAbout(e.name)) = 1
                /\ LogsAbout(e.name)[1].err = ReadErr(e)
    /\ file_count = Len(ReadOk(DoneFiles))

\* the file at hand raises at this point of its read
RaisesNow ==
    \/ /\ pc = "file" /\ idx <= Len(files)
       /\ Supported(Cur) /\ Cur.openErr /= NoErr
    \/ /\ pc = "unit" /\ unit <= Len(Cur.units)
       /\ Cur.units[unit].err /= NoErr

\* C10: after any prefix of the file loop the header lines of combined_text
\* are those of the files read without error, in discovery order, and
\* file_count is their number; the step at which a file's read raises leaves
\* combined_text and file_count as they were and adds one diagnostic entry.
C10_AllOrNothing ==
    [][ /\ HeaderNames(combined_text') = Names(ReadOk(DoneFiles'))
        /\ file_count' = Len(HeaderNames(combined_text'))
        /\ RaisesNow =>
              /\ combined_text' = combined_text
              /\ file_count' = file_count
              /\ Len(debug_logs') = Len(debug_logs) + 1
              /\ debug_logs'[Len(debug_logs')].file = Cur.name ]_vars

\* a file that raised part-way is behind the loop, and another one was counted
C10_Witness ==
    /\ pc = "file"
    /\ file_count >= 1
    /\ \E i \in 1..Len(DoneFiles) :
          DoneFiles[i].openErr = NoErr /\ Fails(DoneFiles[i])


\* the PDFs the loop is done with and whose native read raised nothing
DonePdfs == SelectSeq(DoneFiles, LAMBDA e : e.ext = ".pdf" /\ ~Fails(e))

\* whether the loop decided to send the PDF to OCR (the entry of line 65)
Routed(e) == \E j \in 1..Len(debug_logs) :
                debug_logs[j].mark = "info" /\ debug_logs[j].file = e.name

\* the error an OCR call on the file raised, NoErr when none did
OcrError(name) ==
    LET js == {j \in 1..Len(io) : /\ io[j].file = name
                                  /\ io[j].op \in {"convert", "recognize"}
                                  /\ io[j].err /= NoErr}
    IN IF js = {} THEN NoErr ELSE io[CHOOSE j \in js : TRUE].err

OcrErrorMessages == {"OCR error: Tesseract not found", "OCR error: Poppler not found",
                     "OCR processing error"}

\* C2 as stated: when OCR fails on a routed PDF (a call raises, or the OCR
\* libraries are missing) the file is kept: its block holds the native text, it
\* is counted, and an error-severity diagnostic classifying the cause is logged.
C2_OcrFailureLogsError ==
    \A i \in 1..Len(DonePdfs) :
        LET e == DonePdfs[i]
            native == PagesText(e.units)
            failed == \/ OcrError(e.name) /= NoErr
                      \/ ~OCR_AVAILABLE /\ StrLen(Strip(native)) < OCR_THRESHOLD
        IN failed =>
            /\ InSeq(e.name, HeaderNames(combined_text))
            /\ file_count = Len(HeaderNames(combined_text))
            /\ \E j \in 1..Len(debug_logs) :
                  /\ Severity(debug_logs[j]) = "error"
                  /\ debug_logs[j].msg \in OcrErrorMessages

\* C2, amended: an OCR call that raises leaves an error-severity entry
\* classified from the message (Tesseract not found, Poppler not found, other);
\* missing OCR libraries leave a warning-severity entry and no error entry; in
\* both cases the block is the fallback notice followed by the native text and
\* the file is counted.
C2_OcrFailureFallsBack ==
    \A i \in 1..Len(DonePdfs) :
        LET e == DonePdfs[i]
            native == PagesText(e.units)
            err == OcrError(e.name)
        IN
        /\ err /= NoErr =>
              /\ InSeq(e.name, HeaderNames(combined_text))
              /\ file_count = Len(HeaderNames(combined_text))
              /\ BlockOf(combined_text, e.name) = L_OCR_ERROR \o native
              /\ \E j \in 1..Len(debug_logs) :
                    /\ Severity(debug_logs[j]) = "error"
                    /\ debug_logs[j].err = err
                    /\ debug_logs[j].msg \in OcrErrorMessages
                    /\ err = E_TESS => debug_logs[j].msg = "OCR error: Tesseract not found"
                    /\ err = E_POPPLER => debug_logs[j].msg = "OCR error: Poppler not found"
                    /\ err = E_OTHER => debug_logs[j].msg = "OCR processing error"
        /\ (~OCR_AVAILABLE /\ StrLen(Strip(native)) < OCR_THRESHOLD) =>
              /\ InSeq(e.name, HeaderNames(combined_text))
              /\ file_count = Len(HeaderNames(combined_text))
              /\ BlockOf(combined_text, e.name) = L_OCR_MISSING \o native
              /\ \E j \in 1..Len(debug_logs) :
                    debug_logs[j].file = e.name /\ Severity(debug_logs[j]) = "warning"
              /\ \A j \in 1..Len(debug_logs) : Severity(debug_logs[j]) /= "error"
                    \/ debug_logs[j].msg = "read error"

\* recognition raised on a PDF with native text, and the loop went on
C2_Witness ==
    /\ pc = "file"
    /\ \E i \in 1..Len(DonePdfs) :
          /\ OcrError(DonePdfs[i].name) \in RecognizeErrors
          /\ PagesText(DonePdfs[i].units) /= Empty

Corpus == IF files = <<>> THEN T_NO_FILES ELSE combined_text

\* C4: a corpus longer than the budget is handed on with length budget + marker
\* length, ending with the marker, and a warning about the truncation is among
\* the diagnostics; a corpus within the budget is handed on unchanged.
C4_CorpusCapped ==
    pc = "gen_call" =>
        /\ StrLen(Corpus) > CORPUS_BUDGET =>
              /\ StrLen(context_data) = CORPUS_BUDGET + StrLen(TRUNCATION_MARKER)
              /\ EndsWith(context_data, TRUNCATION_MARKER)
              /\ \E j \in 1..Len(logs) :
                    /\ Severity(logs[j]) = "warning"
                    /\ logs[j].msg \notin {"OCR recognised nothing",
                                           "OCR library not installed, skipped"}
        /\ StrLen(Corpus) <= CORPUS_BUDGET => context_data = Corpus

\* C4 without the warning (what holds of the code)
C4_TruncationShape ==
    pc = "gen_call" =>
        /\ StrLen(Corpus) > CORPUS_BUDGET =>
              /\ StrLen(context_data) = CORPUS_BUDGET + StrLen(TRUNCATION_MARKER)
              /\ EndsWith(context_data, TRUNCATION_MARKER)
        /\ StrLen(Corpus) <= CORPUS_BUDGET => context_data = Corpus

\* whether glob finds the entry under one of the three patterns
Matches(e) == Supported(e) \/ (windows /\ e.ext = ".PDF")
NoData == ~folderExists \/ \A i \in 1..Len(listing) : ~Matches(listing[i])

\* C5: with the data folder missing, or holding no file the three patterns
\* match, the function returns file_count 0 and a non-empty diagnostic sequence
\* naming the cause, the file loop is never entered and no file is opened.
C5_ZeroResult ==
    /\ pc \in LoopPcs => ~NoData
    /\ (Returned /\ NoData) =>
          /\ count = 0
          /\ logs /= <<>>
          /\ \A j \in 1..Len(logs) :
                logs[j].msg = (IF folderExists THEN "no files found" ELSE "no folder")
          /\ \A j \in 1..Len(io) : io[j].op /= "open"

\* the folder exists and holds only files no pattern matches
C5_Witness == Returned /\ folderExists /\ listing /= <<>> /\ NoData

\* a call the extraction or the synthesis makes (the sidebar's are not)
WorkCall(c) == c.op \in {"open", "convert", "recognize", "chat"}
                  \/ (c.op = "glob" /\ c.file /= "*.*")

\* C6 as stated: without the credential no request reaches the extraction: no
\* directory scan, no file read, no synthesis call.
C6_NoKeyNoRequestReads ==
    ~API_KEY =>
        /\ pc \notin ({"extract"} \cup LoopPcs)
        /\ \A j \in 1..Len(io) : ~WorkCall(io[j])

\* C6, amended: without the credential an estimate request never calls the
\* extraction, opens no file, makes no synthesis call and ends with an error
\* shown; the only calls of the run are the sidebar's probe of the data folder.
C6_NoKeyNoEstimate ==
    (~API_KEY /\ button = "generate") =>
        /\ pc \in {"generate", "done"}
        /\ \A j \in 1..Len(io) : ~WorkCall(io[j])
        /\ Len(io) <= 2
        /\ pc = "done" => InSeq(Message("error", "check the settings"), shown)

\* an estimate request without the credential has ended, files were there
C6_Witness ==
    ~API_KEY /\ button = "generate" /\ pc = "done" /\ ~NoData

\* the diagnostic entries the page shows, in order
ShownLogs ==
    LET ws == SelectSeq(shown, LAMBDA w : w.what = "log") IN [i \in 1..Len(ws) |-> ws[i].log]
ExtractionRan == button = "check" \/ \E j \in 1..Len(io) : io[j].op = "chat"

\* C7: a request that ran an extraction shows the file count and every
\* diagnostic entry the extraction returned, in order.
C7_DiagnosticsShown ==
    (pc = "done" /\ ExtractionRan) =>
        /\ ShownLogs = logs
        /\ \E j \in 1..Len(shown) : shown[j].what = "files read" /\ shown[j].num = count

\* C7 for the data-check button alone (what holds of the code)
C7_DataCheckShows ==
    (pc = "done" /\ button = "check") =>
        /\ ShownLogs = logs
        /\ \E j \in 1..Len(shown) : shown[j].what = "files read" /\ shown[j].num = count

\* no data at all: no folder, no matching file, or every matching file fails
DataAbsent ==
    ~folderExists \/ \A i \in 1..Len(listing) : Matches(listing[i]) => Fails(listing[i])

\* C8: with the credential and no data at all, an estimate request still
\* reaches the synthesis call and the page warns that no reference data was used.
C8_GeneratesWithoutData ==
    (pc = "done" /\ button = "generate" /\ API_KEY /\ DataAbsent) =>
        /\ \E j \in 1..Len(io) : io[j].op = "chat"
        /\ \E j \in 1..Len(shown) :
              shown[j].w = "warning" /\ shown[j].what /= "OCR library: not installed"

\* C9: src/main.py computes no electronic-deliverable cost: the system prompt
\* of lines 203-210 holds no formula and the handler does no arithmetic before
\* or after the chat call of lines 221-229, so the model has nothing to state
\* the four-step computation about.

====
